---- MODULE Spec2Model ----
\* Reorg-safe per-pool state machine of the pixel_land exchange canister
\* (src/src/ree): the pool registry CANVAS_TOKENS, the transaction ledger
\* TX_RECORDS, the block ledger BLOCKS and the execution guard set
\* EXECUTING_TOKENS, driven by the handlers init_canvas_token, execute_tx,
\* new_block and rollback_tx.
\*
\* init_calls holds the init_canvas_token calls waiting at their await.
\* finalized_base, executed and listed_at are history: the state new_block
\* last finalized as the base of each pool, the txids execute_tx has committed,
\* and the lowest height at which new_block has listed each of them since.
\* executed and listed_at are recorded by SpecNoRollback only. live is the
\* history of the reserve: per pool, the states execute_tx has committed that no
\* rollback_tx has undone since, each with the satoshis it added to the
\* balance; it is recorded by SpecReserve only.
EXTENDS Integers, Sequences, FiniteSets, TLC

VARIABLES CANVAS_TOKENS, TX_RECORDS, BLOCKS, EXECUTING_TOKENS, init_calls, finalized_base,
          executed, listed_at, live

vars == <<CANVAS_TOKENS, TX_RECORDS, BLOCKS, EXECUTING_TOKENS, init_calls, finalized_base,
          executed, listed_at, live>>

-----------------------------------------------------------------------------
\* Bounds of the model and program constants

\* u64::MAX, scaled down so that the limit is within reach of the amounts
U64_MAX == 32767

\* execute_tx is explored while the target pool's latest nonce is below MaxNonce
MaxNonce == 2

\* at most this many init_canvas_token calls wait for the key-derivation service
MaxInitCalls == 1

\* the validators and finalize on their own start from chains of at most
\* MaxChain states
MaxChain == 3

MIN_BTC_VALUE == 10000

DEFAULT_EXCHANGE_RATE == 100

REORG_DEPTH == 6

-----------------------------------------------------------------------------
\* Value types

\* Option<T>: None is the empty sequence, Some(x) the one-element sequence
None == <<>>

Some(x) == <<x>>

BTC == "BTC"

RuneIds == {"R1", "R2"}

CoinIds == {BTC} \cup RuneIds

Txids == {"t1", "t2"}

\* the address the key-derivation service derives for a token id: a
\* deterministic, injective function of the derivation path [id.to_string()]
request_ree_pool_address(id) == IF id = "R1" THEN "P1" ELSE "P2"

Addrs == {request_ree_pool_address(id) : id \in RuneIds}

Coin(id, value) == [id |-> id, value |-> value]

\* TokenState::default()
DefaultTokenState == [id |-> None, nonce |-> 0, btc_balance |-> 0, exchange_rate |-> None, timestamp |-> 0]

Ok(v) == [ok |-> TRUE, err |-> "", nonce |-> 0, value |-> v]

\* an ExchangeError; nonce is the payload of TokenStateExpired, 0 otherwise
Err(kind, n) == [ok |-> FALSE, err |-> kind, nonce |-> n, value |-> DefaultTokenState]

\* the response of a handler: its name and what it returned
Response(op, ok, err, n) == [op |-> op, ok |-> ok, err |-> err, nonce |-> n]

-----------------------------------------------------------------------------
\* StableBTreeMap, as a function on the set of its keys

Get(m, k) == IF k \in DOMAIN m THEN Some(m[k]) ELSE None

Insert(m, k, v) == [x \in DOMAIN m \cup {k} |-> IF x = k THEN v ELSE m[x]]

Remove(m, k) == [x \in DOMAIN m \ {k} |-> m[x]]

Contains(seq, x) == \E i \in 1..Len(seq) : seq[i] = x

\* Iterator::position: the first index (from 1) whose state carries txid, 0 if none
Position(states, txid) ==
    IF \E i \in 1..Len(states) : states[i].id = Some(txid)
    THEN CHOOSE i \in 1..Len(states) :
            /\ states[i].id = Some(txid)
            /\ \A j \in 1..(i - 1) : states[j].id # Some(txid)
    ELSE 0

\* Vec::last().cloned().unwrap_or_default()
LastOrDefault(states) == IF Len(states) = 0 THEN DefaultTokenState ELSE states[Len(states)]

-----------------------------------------------------------------------------
\* CanvasToken

calculate_buy_amount_with_rate(btc_amount, exchange_rate) == btc_amount * exchange_rate

\* (token_amount / rate) as u64: the cast keeps the low bits
calculate_sell_amount_with_rate(token_amount, exchange_rate) ==
    (token_amount \div exchange_rate) % (U64_MAX + 1)

get_current_exchange_rate(token) ==
    IF Len(token.states) > 0 /\ token.states[Len(token.states)].exchange_rate # None
    THEN token.states[Len(token.states)].exchange_rate[1]
    ELSE token.meta.exchange_rate

calculate_buy_amount(token, btc_amount) == btc_amount * get_current_exchange_rate(token)

\* faulty variant: a nonce at or below the latest one passes
NonceMatches_AtMost(state, nonce) == nonce <= state.nonce

\* the nonce check of both validators
NonceMatches(state, nonce) == state.nonce = nonce

\* faulty variant: the reserve is not checked
SufficientBtc_Always(state, expected_btc_amount) == TRUE

\* the reserve check of validate_sell_token
SufficientBtc(state, expected_btc_amount) == state.btc_balance >= expected_btc_amount

\* faulty variant: the nonce is not incremented
NextState_KeepNonce(state, txid, balance, exchange_rate, now) ==
    [id |-> Some(txid), nonce |-> state.nonce, btc_balance |-> balance,
     exchange_rate |-> Some(exchange_rate), timestamp |-> now]

\* faulty variant: the nonce is incremented twice
NextState_DoubleIncrement(state, txid, balance, exchange_rate, now) ==
    [id |-> Some(txid), nonce |-> state.nonce + 2, btc_balance |-> balance,
     exchange_rate |-> Some(exchange_rate), timestamp |-> now]

NextState(state, txid, balance, exchange_rate, now) ==
    [id |-> Some(txid), nonce |-> state.nonce + 1, btc_balance |-> balance,
     exchange_rate |-> Some(exchange_rate), timestamp |-> now]

\* faulty variant: the minimum is checked before the nonce
validate_buy_token_MinFirst(token, txid, nonce, input_coins, output_coins, exchange_rate, now) ==
    IF ~(Len(input_coins) = 1 /\ Len(output_coins) = 1) THEN Err("InvalidSignPsbtArgs", 0)
    ELSE IF input_coins[1].id # BTC THEN Err("InvalidSignPsbtArgs", 0)
    ELSE IF output_coins[1].id # token.meta.id THEN Err("InvalidSignPsbtArgs", 0)
    ELSE LET state == LastOrDefault(token.states) IN
    IF input_coins[1].value > U64_MAX THEN Err("Overflow", 0)
    ELSE LET btc_amount == input_coins[1].value IN
    IF btc_amount < MIN_BTC_VALUE THEN Err("TooSmallFunds", 0)
    ELSE IF ~NonceMatches(state, nonce) THEN Err("TokenStateExpired", state.nonce)
    ELSE IF output_coins[1].value # calculate_buy_amount_with_rate(btc_amount, exchange_rate)
         THEN Err("InvalidSignPsbtArgs", 0)
    ELSE IF state.btc_balance + btc_amount > U64_MAX THEN Err("Overflow", 0)
    ELSE Ok(NextState(state, txid, state.btc_balance + btc_amount, exchange_rate, now))

validate_buy_token(token, txid, nonce, input_coins, output_coins, exchange_rate, now) ==
    IF ~(Len(input_coins) = 1 /\ Len(output_coins) = 1) THEN Err("InvalidSignPsbtArgs", 0)
    ELSE IF input_coins[1].id # BTC THEN Err("InvalidSignPsbtArgs", 0)
    ELSE IF output_coins[1].id # token.meta.id THEN Err("InvalidSignPsbtArgs", 0)
    ELSE LET state == LastOrDefault(token.states) IN
    IF ~NonceMatches(state, nonce) THEN Err("TokenStateExpired", state.nonce)
    ELSE IF input_coins[1].value > U64_MAX THEN Err("Overflow", 0)
    ELSE LET btc_amount == input_coins[1].value IN
    IF btc_amount < MIN_BTC_VALUE THEN Err("TooSmallFunds", 0)
    ELSE IF output_coins[1].value # calculate_buy_amount_with_rate(btc_amount, exchange_rate)
         THEN Err("InvalidSignPsbtArgs", 0)
    ELSE IF state.btc_balance + btc_amount > U64_MAX THEN Err("Overflow", 0)
    ELSE Ok(NextState(state, txid, state.btc_balance + btc_amount, exchange_rate, now))

validate_sell_token(token, txid, nonce, input_coins, output_coins, exchange_rate, now) ==
    IF ~(Len(input_coins) = 1 /\ Len(output_coins) = 1) THEN Err("InvalidSignPsbtArgs", 0)
    ELSE IF input_coins[1].id # token.meta.id THEN Err("InvalidSignPsbtArgs", 0)
    ELSE IF output_coins[1].id # BTC THEN Err("InvalidSignPsbtArgs", 0)
    ELSE IF Len(token.states) = 0 THEN Err("EmptyToken", 0)
    ELSE LET state == token.states[Len(token.states)]
             expected_btc_amount ==
                 calculate_sell_amount_with_rate(input_coins[1].value, exchange_rate) IN
    IF ~NonceMatches(state, nonce) THEN Err("TokenStateExpired", state.nonce)
    ELSE IF expected_btc_amount < MIN_BTC_VALUE THEN Err("TooSmallFunds", 0)
    ELSE IF output_coins[1].value > U64_MAX THEN Err("Overflow", 0)
    ELSE IF output_coins[1].value # expected_btc_amount THEN Err("InvalidSignPsbtArgs", 0)
    ELSE IF ~SufficientBtc(state, expected_btc_amount) THEN Err("InsufficientBtc", 0)
    ELSE IF state.btc_balance - expected_btc_amount < 0 THEN Err("Overflow", 0)
    ELSE Ok(NextState(state, txid, state.btc_balance - expected_btc_amount, exchange_rate, now))

\* Vec::rotate_left(mid): the elements from mid on come first
RotateLeft(states, mid) == SubSeq(states, mid + 1, Len(states)) \o SubSeq(states, 1, mid)

Truncate(states, len) == IF len < Len(states) THEN SubSeq(states, 1, len) ELSE states

\* faulty variant: the state of txid itself is kept
rollback_KeepTarget(states, txid) ==
    LET idx == Position(states, txid) IN
    IF idx = 0 THEN [ok |-> FALSE, states |-> states]
    ELSE [ok |-> TRUE, states |-> Truncate(states, idx)]

\* faulty variant: a chain without a state of txid is cleared
rollback_ClearIfAbsent(states, txid) ==
    LET idx == Position(states, txid) IN
    IF idx <= 1 THEN [ok |-> TRUE, states |-> <<>>]
    ELSE [ok |-> TRUE, states |-> Truncate(states, idx - 1)]

\* rollback returns the new chain, or InvalidState and the chain as it was
rollback(states, txid) ==
    LET idx == Position(states, txid) IN
    IF idx = 0 THEN [ok |-> FALSE, states |-> states]
    ELSE IF idx = 1 THEN [ok |-> TRUE, states |-> <<>>]
    ELSE [ok |-> TRUE, states |-> Truncate(states, idx - 1)]

\* faulty variant: only the state of txid is kept
finalize_OnlyTarget(states, txid) ==
    LET idx == Position(states, txid) IN
    IF idx = 0 THEN [ok |-> FALSE, states |-> states]
    ELSE [ok |-> TRUE, states |-> <<states[idx]>>]

\* faulty variant: the rotated chain is truncated to idx states
finalize_TruncateToIdx(states, txid) ==
    LET idx == Position(states, txid) IN
    IF idx = 0 THEN [ok |-> FALSE, states |-> states]
    ELSE IF idx = 1 THEN [ok |-> TRUE, states |-> states]
    ELSE [ok |-> TRUE, states |-> Truncate(RotateLeft(states, idx - 1), idx - 1)]

\* faulty variant: the chain is rotated but not truncated
finalize_NoTruncate(states, txid) ==
    LET idx == Position(states, txid) IN
    IF idx = 0 THEN [ok |-> FALSE, states |-> states]
    ELSE [ok |-> TRUE, states |-> RotateLeft(states, idx - 1)]

finalize(states, txid) ==
    LET idx == Position(states, txid) IN
    IF idx = 0 THEN [ok |-> FALSE, states |-> states]
    ELSE IF idx = 1 THEN [ok |-> TRUE, states |-> states]
    ELSE [ok |-> TRUE,
          states |-> Truncate(RotateLeft(states, idx - 1), Len(states) - (idx - 1))]

commit(states, state) == Append(states, state)

\* pre_buy_token: the offer for btc_amount satoshis on the pool at token_address
pre_buy_token(tokens, token_address, btc_amount) ==
    IF btc_amount < MIN_BTC_VALUE THEN Err("TooSmallFunds", 0)
    ELSE IF token_address \notin DOMAIN tokens THEN Err("InvalidToken", 0)
    ELSE LET token == tokens[token_address]
             state == LastOrDefault(token.states)
         IN Ok([nonce |-> state.nonce,
                token_amount |-> calculate_buy_amount(token, btc_amount),
                current_btc_balance |-> state.btc_balance])

-----------------------------------------------------------------------------
\* ExecuteTxGuard

\* ExecuteTxGuard::new: None when the address is already executing
ExecuteTxGuard_new(executing, token_address) ==
    IF token_address \in executing THEN [acquired |-> FALSE, executing |-> executing]
    ELSE [acquired |-> TRUE, executing |-> executing \cup {token_address}]

\* faulty variant: the drop leaves the address in the set
ExecuteTxGuard_drop_Leak(executing, token_address) == executing

\* Drop for ExecuteTxGuard
ExecuteTxGuard_drop(executing, token_address) == executing \ {token_address}

-----------------------------------------------------------------------------
\* execute_tx

\* TxRecord of (txid, false) with pool_address pushed unless it is there already
RecordUnconfirmed(records, txid, pool_address) ==
    LET found == Get(records, <<txid, FALSE>>)
        record == IF found = None THEN [pools |-> <<>>] ELSE found[1]
        pushed == IF Contains(record.pools, pool_address) THEN record
                  ELSE [pools |-> Append(record.pools, pool_address)]
    IN Insert(records, <<txid, FALSE>>, pushed)

\* what a handler leaves behind: the three maps, the guard set and the response
Outcome(tokens, records, blocks, executing, resp) ==
    [tokens |-> tokens, records |-> records, blocks |-> blocks, executing |-> executing,
     response |-> resp]

\* a handler that returns before any mutation, or traps (the message's changes
\* are reverted)
Unchanged(resp) == Outcome(CANVAS_TOKENS, TX_RECORDS, BLOCKS, EXECUTING_TOKENS, resp)

\* the commit of a validated state and the unconfirmed ledger record; the
\* guard is dropped on return
ExecuteCommit(args, guarded, new_state) ==
    LET token == CANVAS_TOKENS[args.pool_address]
        committed == [token EXCEPT !.states = commit(token.states, new_state)]
    IN Outcome(Insert(CANVAS_TOKENS, args.pool_address, committed),
               RecordUnconfirmed(TX_RECORDS, args.txid, args.pool_address),
               BLOCKS,
               ExecuteTxGuard_drop(guarded, args.pool_address),
               Response("execute_tx", TRUE, "", 0))

\* faulty variant: the guard is not dropped on an error
ExecuteError_KeepGuard(args, guarded, kind, n) ==
    Outcome(CANVAS_TOKENS, TX_RECORDS, BLOCKS, guarded, Response("execute_tx", FALSE, kind, n))

\* an error after the guard was acquired: the guard is dropped on return
ExecuteError(args, guarded, kind, n) ==
    Outcome(CANVAS_TOKENS, TX_RECORDS, BLOCKS,
            ExecuteTxGuard_drop(guarded, args.pool_address),
            Response("execute_tx", FALSE, kind, n))

execute_tx(args, now) ==
    IF ~args.psbt_ok THEN Unchanged(Response("execute_tx", FALSE, "invalid psbt", 0))
    ELSE IF ~args.index_ok THEN Unchanged(Response("execute_tx", FALSE, "trap", 0))
    ELSE LET guard == ExecuteTxGuard_new(EXECUTING_TOKENS, args.pool_address) IN
    IF ~guard.acquired THEN Unchanged(Response("execute_tx", FALSE, "Executing", 0))
    ELSE IF args.pool_address \notin DOMAIN CANVAS_TOKENS
         THEN Unchanged(Response("execute_tx", FALSE, "trap", 0))
    ELSE LET canvas_token == CANVAS_TOKENS[args.pool_address]
             exchange_rate == DEFAULT_EXCHANGE_RATE
             validated ==
                 IF args.action = "buy_token"
                 THEN validate_buy_token(canvas_token, args.txid, args.nonce,
                          args.input_coins, args.output_coins, exchange_rate, now)
                 ELSE validate_sell_token(canvas_token, args.txid, args.nonce,
                          args.input_coins, args.output_coins, exchange_rate, now) IN
    IF args.action \notin {"buy_token", "sell_token"}
    THEN ExecuteError(args, guard.executing, "invalid method", 0)
    ELSE IF ~validated.ok
    THEN ExecuteError(args, guard.executing, validated.err, validated.nonce)
    ELSE ExecuteCommit(args, guard.executing, validated.value)

-----------------------------------------------------------------------------
\* rollback_tx

\* faulty variant: the first pool that cannot be rolled back ends the loop
RECURSIVE RollbackPools_AbortOnError(_, _, _)
RollbackPools_AbortOnError(tokens, pools, txid) ==
    IF pools = <<>> THEN tokens
    ELSE LET token_address == Head(pools)
             rolled == IF token_address \in DOMAIN tokens
                       THEN rollback(tokens[token_address].states, txid)
                       ELSE [ok |-> FALSE, states |-> <<>>]
         IN IF rolled.ok
            THEN RollbackPools_AbortOnError(
                     Insert(tokens, token_address,
                         [tokens[token_address] EXCEPT !.states = rolled.states]),
                     Tail(pools), txid)
            ELSE tokens

\* the for_each over record.pools: each listed pool that still exists and
\* contains txid is rolled back; the others are left as they are
RECURSIVE RollbackPools(_, _, _)
RollbackPools(tokens, pools, txid) ==
    IF pools = <<>> THEN tokens
    ELSE LET token_address == Head(pools)
             rolled == IF token_address \in DOMAIN tokens
                       THEN rollback(tokens[token_address].states, txid)
                       ELSE [ok |-> FALSE, states |-> <<>>]
             after == IF rolled.ok
                      THEN Insert(tokens, token_address,
                               [tokens[token_address] EXCEPT !.states = rolled.states])
                      ELSE tokens
         IN RollbackPools(after, Tail(pools), txid)

\* format!("No record found for txid: {}", txid)
NoRecordFound(txid) == "No record found for txid: " \o txid

\* faulty variant: the confirmed ledger entry is not removed
rollback_tx_KeepConfirmed(txid) ==
    LET maybe_unconfirmed_record == Get(TX_RECORDS, <<txid, FALSE>>)
        maybe_confirmed_record == Get(TX_RECORDS, <<txid, TRUE>>)
        record == IF maybe_confirmed_record # None THEN maybe_confirmed_record
                  ELSE maybe_unconfirmed_record
    IN IF record = None
       THEN Unchanged(Response("rollback_tx", FALSE, NoRecordFound(txid), 0))
       ELSE Outcome(RollbackPools(CANVAS_TOKENS, record[1].pools, txid),
                    Remove(TX_RECORDS, <<txid, FALSE>>),
                    BLOCKS, EXECUTING_TOKENS,
                    Response("rollback_tx", TRUE, "", 0))

rollback_tx(txid) ==
    LET maybe_unconfirmed_record == Get(TX_RECORDS, <<txid, FALSE>>)
        maybe_confirmed_record == Get(TX_RECORDS, <<txid, TRUE>>)
        record == IF maybe_confirmed_record # None THEN maybe_confirmed_record
                  ELSE maybe_unconfirmed_record
    IN IF record = None
       THEN Unchanged(Response("rollback_tx", FALSE, NoRecordFound(txid), 0))
       ELSE Outcome(RollbackPools(CANVAS_TOKENS, record[1].pools, txid),
                    Remove(Remove(TX_RECORDS, <<txid, FALSE>>), <<txid, TRUE>>),
                    BLOCKS, EXECUTING_TOKENS,
                    Response("rollback_tx", TRUE, "", 0))

-----------------------------------------------------------------------------
\* new_block

\* faulty variant: the unconfirmed record is copied to (txid, true) and kept
RECURSIVE Promote_KeepUnconfirmed(_, _)
Promote_KeepUnconfirmed(records, confirmed_txids) ==
    IF confirmed_txids = <<>> THEN records
    ELSE LET txid == Head(confirmed_txids)
             after == IF <<txid, FALSE>> \in DOMAIN records
                      THEN Insert(records, <<txid, TRUE>>, records[<<txid, FALSE>>])
                      ELSE records
         IN Promote_KeepUnconfirmed(after, Tail(confirmed_txids))

\* the promotion loop: each listed txid with an unconfirmed record has it moved
\* to (txid, true)
RECURSIVE Promote(_, _)
Promote(records, confirmed_txids) ==
    IF confirmed_txids = <<>> THEN records
    ELSE LET txid == Head(confirmed_txids)
             after == IF <<txid, FALSE>> \in DOMAIN records
                      THEN Insert(Remove(records, <<txid, FALSE>>), <<txid, TRUE>>,
                                  records[<<txid, FALSE>>])
                      ELSE records
         IN Promote(after, Tail(confirmed_txids))

confirmed_height(block_height) ==
    IF block_height >= REORG_DEPTH THEN block_height - REORG_DEPTH ELSE 0

\* the for_each over record.pools of the sweep; st.base records, per pool, the
\* state a successful finalize left at the head of the chain
RECURSIVE FinalizePools(_, _, _)
FinalizePools(st, pools, txid) ==
    IF pools = <<>> THEN st
    ELSE LET token_address == Head(pools)
             done == IF token_address \in DOMAIN st.tokens
                     THEN finalize(st.tokens[token_address].states, txid)
                     ELSE [ok |-> FALSE, states |-> <<>>]
             after == IF done.ok
                      THEN [st EXCEPT
                               !.tokens = Insert(st.tokens, token_address,
                                   [st.tokens[token_address] EXCEPT !.states = done.states]),
                               !.base = [st.base EXCEPT ![token_address] = Some(Head(done.states))]]
                      ELSE st
         IN FinalizePools(after, Tail(pools), txid)

\* the txids of one swept block, in the order stored; st.log lists the
\* "finalize txid" lines, each with the height of the block being swept
RECURSIVE FinalizeTxids(_, _, _)
FinalizeTxids(st, confirmed_txids, height) ==
    IF confirmed_txids = <<>> THEN st
    ELSE LET txid == Head(confirmed_txids)
             after == IF <<txid, TRUE>> \in DOMAIN st.records
                      THEN LET swept == FinalizePools(st, st.records[<<txid, TRUE>>].pools, txid)
                           IN [swept EXCEPT !.records = Remove(swept.records, <<txid, TRUE>>),
                                            !.log = Append(swept.log, [txid |-> txid, height |-> height])]
                      ELSE st
         IN FinalizeTxids(after, Tail(confirmed_txids), height)

Min(S) == CHOOSE x \in S : \A y \in S : x <= y

\* the stored blocks at or below the confirmed height, lowest first
RECURSIVE FinalizeBlocks(_, _, _)
FinalizeBlocks(st, blocks, heights) ==
    IF heights = {} THEN st
    ELSE LET height == Min(heights)
         IN FinalizeBlocks(FinalizeTxids(st, blocks[height].confirmed_txids, height),
                           blocks, heights \ {height})

\* faulty variant: no block is removed
RemoveBlocks_None(blocks, heights) == blocks

RemoveBlocks(blocks, heights) == [h \in DOMAIN blocks \ heights |-> blocks[h]]

\* the result of new_block: the maps, the finalized bases and the finalize log
new_block(args) ==
    LET inserted == Insert(BLOCKS, args.block_height, args)
        promoted == Promote(TX_RECORDS, args.confirmed_txids)
        safe == {h \in DOMAIN inserted : h <= confirmed_height(args.block_height)}
        swept == FinalizeBlocks([tokens |-> CANVAS_TOKENS, records |-> promoted,
                                 base |-> finalized_base, log |-> <<>>],
                                inserted, safe)
    IN [tokens |-> swept.tokens, records |-> swept.records,
        blocks |-> RemoveBlocks(inserted, safe), executing |-> EXECUTING_TOKENS,
        response |-> Response("new_block", TRUE, "", 0),
        base |-> swept.base, log |-> swept.log]

-----------------------------------------------------------------------------
\* init_canvas_token

\* the part before the call to the key-derivation service
init_canvas_token_check(is_controller, exchange_rate) ==
    IF ~is_controller THEN Response("init_canvas_token", FALSE, "Not authorized", 0)
    ELSE IF exchange_rate = 0
    THEN Response("init_canvas_token", FALSE, "Exchange rate must be greater than 0", 0)
    ELSE Response("init_canvas_token", TRUE, "", 0)

\* the pool inserted when the service has answered
NewCanvasToken(call) ==
    [states |-> <<>>,
     meta |-> [id |-> call.id, symbol |-> call.symbol, exchange_rate |-> call.exchange_rate,
               min_amount |-> 1],
     addr |-> request_ree_pool_address(call.id)]

-----------------------------------------------------------------------------
\* The calls the environment makes

Rates == {0, DEFAULT_EXCHANGE_RATE}

Symbols == {"PXL"}

\* ic_cdk::api::time()
Times == {1}

\* the coin flows of an intention: what the user puts in and takes out
Flow(input_coins, output_coins) == [input_coins |-> input_coins, output_coins |-> output_coins]

\* a valid buy and a valid sell per rune; a buy below the minimum; a buy with a
\* mismatched token amount; a sell of so many tokens that its BTC value is
\* above u64::MAX, asking for the low bits of that value; an empty intention
Flows ==
    {Flow(<<Coin(BTC, MIN_BTC_VALUE)>>, <<Coin(r, MIN_BTC_VALUE * DEFAULT_EXCHANGE_RATE)>>) : r \in RuneIds}
    \cup {Flow(<<Coin(r, MIN_BTC_VALUE * DEFAULT_EXCHANGE_RATE)>>, <<Coin(BTC, MIN_BTC_VALUE)>>) : r \in RuneIds}
    \cup {Flow(<<Coin(BTC, MIN_BTC_VALUE - 1)>>, <<Coin("R1", (MIN_BTC_VALUE - 1) * DEFAULT_EXCHANGE_RATE)>>),
          Flow(<<Coin(BTC, MIN_BTC_VALUE)>>, <<Coin("R1", MIN_BTC_VALUE * DEFAULT_EXCHANGE_RATE - 1)>>),
          Flow(<<Coin("R1", (U64_MAX + 1 + MIN_BTC_VALUE) * DEFAULT_EXCHANGE_RATE)>>,
               <<Coin(BTC, MIN_BTC_VALUE)>>),
          Flow(<<>>, <<>>)}

\* the execute_tx calls whose intention names a pool among addrs
Intentions(addrs) ==
    {[psbt_ok |-> TRUE, index_ok |-> TRUE, txid |-> t, pool_address |-> a, action |-> act,
      nonce |-> n, input_coins |-> f.input_coins, output_coins |-> f.output_coins] :
        t \in Txids, a \in addrs, act \in {"buy_token", "sell_token"}, n \in 0..MaxNonce, f \in Flows}

\* calls with a malformed psbt, an intention index out of range or an unknown action
BadCalls ==
    [psbt_ok : BOOLEAN, index_ok : BOOLEAN, txid : {"t1"}, pool_address : Addrs,
     action : {"mint"}, nonce : {0}, input_coins : {<<>>}, output_coins : {<<>>}]

ExecuteTxArgs == Intentions({"P1"}) \cup BadCalls

Heights == {0, 1, REORG_DEPTH + 1}

TxidSeqs == {<<"t1">>, <<"t2">>, <<"t1", "t2">>}

NewBlockArgs == [block_height : Heights, confirmed_txids : TxidSeqs]

InitArgs(ids) == [id : ids, symbol : Symbols, exchange_rate : Rates]

-----------------------------------------------------------------------------
\* The state machine

Init ==
    /\ CANVAS_TOKENS = <<>>
    /\ TX_RECORDS = <<>>
    /\ BLOCKS = <<>>
    /\ EXECUTING_TOKENS = {}
    /\ init_calls = {}
    /\ finalized_base = [a \in Addrs |-> None]
    /\ executed = {}
    /\ listed_at = [t \in Txids |-> None]
    /\ live = [a \in Addrs |-> <<>>]

\* the head of a pool's chain, None for an empty chain or a missing pool
Base(tokens, addr) ==
    IF addr \in DOMAIN tokens /\ tokens[addr].states # <<>>
    THEN Some(Head(tokens[addr].states)) ELSE None

\* a finalized base is forgotten when the head of the chain is no longer it
KeepBase(base, tokens) ==
    [a \in Addrs |-> IF base[a] = Base(tokens, a) THEN base[a] ELSE None]

LatestNonce(addr) ==
    IF addr \in DOMAIN CANVAS_TOKENS THEN LastOrDefault(CANVAS_TOKENS[addr].states).nonce ELSE 0

\* what execute_tx does to the canister's state
ExecuteTxEffect(args, now) ==
    LET out == execute_tx(args, now) IN
        /\ CANVAS_TOKENS' = out.tokens
        /\ TX_RECORDS' = out.records
        /\ BLOCKS' = out.blocks
        /\ EXECUTING_TOKENS' = out.executing
        /\ UNCHANGED <<init_calls, finalized_base>>

ExecuteTxStep(args, now) ==
    ExecuteTxEffect(args, now) /\ UNCHANGED <<executed, listed_at, live>>

ExecuteTx ==
    \E args \in ExecuteTxArgs, now \in Times :
        /\ LatestNonce(args.pool_address) < MaxNonce
        /\ ExecuteTxStep(args, now)

\* what rollback_tx does to the canister's state
RollbackTxEffect(txid) ==
    LET out == rollback_tx(txid) IN
        /\ CANVAS_TOKENS' = out.tokens
        /\ TX_RECORDS' = out.records
        /\ BLOCKS' = out.blocks
        /\ EXECUTING_TOKENS' = out.executing
        /\ finalized_base' = KeepBase(finalized_base, out.tokens)
        /\ UNCHANGED <<init_calls, executed, listed_at>>

RollbackTxStep(txid) == RollbackTxEffect(txid) /\ UNCHANGED live

RollbackTx == \E txid \in Txids : RollbackTxStep(txid)

\* what new_block does to the canister's state
NewBlockEffect(args) ==
    LET out == new_block(args) IN
        /\ CANVAS_TOKENS' = out.tokens
        /\ TX_RECORDS' = out.records
        /\ BLOCKS' = out.blocks
        /\ EXECUTING_TOKENS' = out.executing
        /\ finalized_base' = KeepBase(out.base, out.tokens)
        /\ UNCHANGED init_calls

NewBlockStep(args) == NewBlockEffect(args) /\ UNCHANGED <<executed, listed_at, live>>

NewBlock == \E args \in NewBlockArgs : NewBlockStep(args)

\* init_canvas_token up to its await: a rejected call returns at once, an
\* accepted one waits for the key-derivation service
InitCallWith(calls) ==
    \E is_controller \in BOOLEAN, call \in calls :
        LET checked == init_canvas_token_check(is_controller, call.exchange_rate) IN
            /\ IF checked.ok
               THEN /\ Cardinality(init_calls) < MaxInitCalls
                    /\ init_calls' = init_calls \cup {call}
               ELSE UNCHANGED init_calls
            /\ UNCHANGED <<CANVAS_TOKENS, TX_RECORDS, BLOCKS, EXECUTING_TOKENS, finalized_base,
                           executed, listed_at, live>>

\* init_canvas_token called for a token among ids
InitCallOf(ids) == InitCallWith(InitArgs(ids))

\* init_canvas_token after its await: the service failed, or the pool is
\* inserted at the derived address
InitReply ==
    \E call \in init_calls, derived \in BOOLEAN :
        /\ init_calls' = init_calls \ {call}
        /\ IF derived
           THEN CANVAS_TOKENS' = Insert(CANVAS_TOKENS, request_ree_pool_address(call.id),
                                        NewCanvasToken(call))
           ELSE UNCHANGED CANVAS_TOKENS
        /\ finalized_base' = KeepBase(finalized_base, CANVAS_TOKENS')
        /\ UNCHANGED <<TX_RECORDS, BLOCKS, EXECUTING_TOKENS, executed, listed_at, live>>

\* one pool: the token R1 is the only one ever initialised, and calls that name
\* the address of R2 find no pool
InitCall == InitCallOf({"R1"})

Next == ExecuteTx \/ RollbackTx \/ NewBlock \/ InitCall \/ InitReply

Spec == Init /\ [][Next]_vars

-----------------------------------------------------------------------------
\* Two pools: both tokens are initialised, and execute_tx is called on either
\* address

\* the buys among the calls on either pool, and the malformed calls
ExecuteTxArgsTwoPools ==
    {c \in Intentions(Addrs) :
        c.action = "buy_token" /\ c.input_coins # <<>> /\ c.input_coins[1].id = BTC}
    \cup BadCalls

HeightsTwoPools == {1, REORG_DEPTH + 1}

NewBlockArgsTwoPools == [block_height : HeightsTwoPools, confirmed_txids : {<<"t1">>}]

\* explored while the latest nonces of the two pools together are below MaxNonce
ExecuteTxTwoPools ==
    \E args \in ExecuteTxArgsTwoPools, now \in Times :
        /\ LatestNonce("P1") + LatestNonce("P2") < MaxNonce
        /\ ExecuteTxStep(args, now)

NewBlockTwoPools == \E args \in NewBlockArgsTwoPools : NewBlockStep(args)

InitCallTwoPools == InitCallOf(RuneIds)

NextTwoPools ==
    ExecuteTxTwoPools \/ RollbackTx \/ NewBlockTwoPools \/ InitCallTwoPools \/ InitReply

SpecTwoPools == Init /\ [][NextTwoPools]_vars

-----------------------------------------------------------------------------
\* The sweeps of rollback_tx and new_block over two pools: the behaviours of
\* SpecTwoPools in which execute_tx is called with well-formed buys of the
\* pool's own token, at any nonce (a rejected call changes nothing)

ExecuteTxArgsSweeps ==
    {c \in ExecuteTxArgsTwoPools :
        /\ c.action = "buy_token"
        /\ c.input_coins = <<Coin(BTC, MIN_BTC_VALUE)>>
        /\ \E r \in RuneIds :
               /\ request_ree_pool_address(r) = c.pool_address
               /\ c.output_coins = <<Coin(r, MIN_BTC_VALUE * DEFAULT_EXCHANGE_RATE)>>}

ExecuteTxSweeps ==
    \E args \in ExecuteTxArgsSweeps, now \in Times :
        /\ LatestNonce("P1") + LatestNonce("P2") < MaxNonce
        /\ ExecuteTxStep(args, now)

NextSweeps ==
    ExecuteTxSweeps \/ RollbackTx \/ NewBlockTwoPools \/ InitCallTwoPools \/ InitReply

SpecSweeps == Init /\ [][NextSweeps]_vars

-----------------------------------------------------------------------------
\* The behaviours without rollback_tx, with the history of what was executed
\* and where it was listed

ExecuteTxTracked(args, now) ==
    /\ ExecuteTxEffect(args, now)
    /\ executed' = IF execute_tx(args, now).response.ok THEN executed \cup {args.txid}
                   ELSE executed
    /\ UNCHANGED <<listed_at, live>>

ExecuteTxNoRollback ==
    \E args \in ExecuteTxArgs, now \in Times :
        /\ LatestNonce(args.pool_address) < MaxNonce
        /\ ExecuteTxTracked(args, now)

\* an executed txid listed by this block is recorded with the lowest height
\* that has listed it
NewBlockTracked(args) ==
    /\ NewBlockEffect(args)
    /\ listed_at' = [t \in Txids |->
           IF /\ t \in executed /\ Contains(args.confirmed_txids, t)
              /\ (listed_at[t] = None \/ args.block_height < listed_at[t][1])
           THEN Some(args.block_height) ELSE listed_at[t]]
    /\ UNCHANGED <<executed, live>>

NewBlockNoRollback == \E args \in NewBlockArgs : NewBlockTracked(args)

NextNoRollback == ExecuteTxNoRollback \/ NewBlockNoRollback \/ InitCall \/ InitReply

SpecNoRollback == Init /\ [][NextNoRollback]_vars

-----------------------------------------------------------------------------
\* CanvasToken::finalize on its own: the pool of R1 starts with any chain of at
\* most MaxChain states that execute_tx can have committed, and finalize is
\* applied to it

\* a state committed by execute_tx
CommittedState(txid, nonce, btc_balance) ==
    [id |-> Some(txid), nonce |-> nonce, btc_balance |-> btc_balance,
     exchange_rate |-> Some(DEFAULT_EXCHANGE_RATE), timestamp |-> 1]

\* the chains of n committed states with consecutive nonces; a txid may occur
\* more than once
ChainsOfLen(n) ==
    {[i \in 1..n |-> CommittedState(ids[i], first + i - 1, balances[i])] :
        ids \in [1..n -> Txids], first \in 1..2, balances \in [1..n -> {0, MIN_BTC_VALUE}]}

CommittedChains == UNION {ChainsOfLen(n) : n \in 0..MaxChain}

InitAnyChain ==
    /\ \E states \in CommittedChains :
           CANVAS_TOKENS =
               [a \in {"P1"} |->
                   [NewCanvasToken([id |-> "R1", symbol |-> "PXL",
                                    exchange_rate |-> DEFAULT_EXCHANGE_RATE])
                       EXCEPT !.states = states]]
    /\ TX_RECORDS = <<>>
    /\ BLOCKS = <<>>
    /\ EXECUTING_TOKENS = {}
    /\ init_calls = {}
    /\ finalized_base = [a \in Addrs |-> None]
    /\ executed = {}
    /\ listed_at = [t \in Txids |-> None]
    /\ live = [a \in Addrs |-> <<>>]

\* token.finalize(txid) and, when it succeeded, the insert of the pool
FinalizeStep(token_address, txid) ==
    LET token == CANVAS_TOKENS[token_address]
        done == finalize(token.states, txid) IN
        /\ IF done.ok
           THEN CANVAS_TOKENS' = Insert(CANVAS_TOKENS, token_address,
                                        [token EXCEPT !.states = done.states])
           ELSE UNCHANGED CANVAS_TOKENS
        /\ UNCHANGED <<TX_RECORDS, BLOCKS, EXECUTING_TOKENS, init_calls, finalized_base,
                       executed, listed_at, live>>

NextFinalize == \E a \in DOMAIN CANVAS_TOKENS, txid \in Txids : FinalizeStep(a, txid)

SpecFinalize == InitAnyChain /\ [][NextFinalize]_vars

-----------------------------------------------------------------------------
\* validate_buy_token on its own: the pool of R1 starts with any chain of at
\* most MaxChain committed states and execute_tx is called with buys that
\* break any of the validator's preconditions, alone or together

\* the satoshi amounts of a buy: below the minimum, the minimum, the largest
\* amount a pool holding the minimum cannot take, and one above u64::MAX
BuyValues == {MIN_BTC_VALUE - 1, MIN_BTC_VALUE, U64_MAX - MIN_BTC_VALUE + 1, U64_MAX + 1}

\* no input, one input of either kind, two inputs
BuyInputs ==
    {<<>>, <<Coin(BTC, MIN_BTC_VALUE), Coin(BTC, MIN_BTC_VALUE)>>}
    \cup {<<Coin(id, v)>> : id \in {BTC, "R1"}, v \in BuyValues}

\* no output, or one output of either rune: the amount the rate gives for one
\* of the inputs, or one token less than for the minimum
BuyOutputs ==
    {<<>>}
    \cup {<<Coin(id, v * DEFAULT_EXCHANGE_RATE)>> : id \in RuneIds, v \in BuyValues}
    \cup {<<Coin(id, MIN_BTC_VALUE * DEFAULT_EXCHANGE_RATE - 1)>> : id \in RuneIds}

\* the nonces a chain of CommittedChains can end with, one more and zero
BuyNonces == 0..(MaxChain + 2)

BuyArgs ==
    [psbt_ok : {TRUE}, index_ok : {TRUE}, txid : {"t1"}, pool_address : {"P1"},
     action : {"buy_token"}, nonce : BuyNonces, input_coins : BuyInputs,
     output_coins : BuyOutputs]

\* explored while the chain of the pool has at most MaxChain states
NextValidateBuy ==
    \E args \in BuyArgs, now \in Times :
        /\ Len(CANVAS_TOKENS[args.pool_address].states) <= MaxChain
        /\ ExecuteTxStep(args, now)

SpecValidateBuy == InitAnyChain /\ [][NextValidateBuy]_vars

-----------------------------------------------------------------------------
\* Offers: the token R1 is initialised with any rate, and the buys executed
\* are those that pre_buy_token has just offered

QuoteRates == {0, DEFAULT_EXCHANGE_RATE, 2 * DEFAULT_EXCHANGE_RATE}

OfferAmounts == {MIN_BTC_VALUE - 1, MIN_BTC_VALUE, 2 * MIN_BTC_VALUE}

\* the execute_tx call of a user who got offer for btc_amount satoshis on the
\* pool at token_address
OfferedBuy(txid, token_address, btc_amount, offer) ==
    [psbt_ok |-> TRUE, index_ok |-> TRUE, txid |-> txid, pool_address |-> token_address,
     action |-> "buy_token", nonce |-> offer.nonce,
     input_coins |-> <<Coin(BTC, btc_amount)>>,
     output_coins |-> <<Coin(CANVAS_TOKENS[token_address].meta.id, offer.token_amount)>>]

ExecuteOffered ==
    \E txid \in Txids, btc_amount \in OfferAmounts, now \in Times :
        LET offer == pre_buy_token(CANVAS_TOKENS, "P1", btc_amount) IN
            /\ offer.ok
            /\ LatestNonce("P1") < MaxNonce
            /\ ExecuteTxStep(OfferedBuy(txid, "P1", btc_amount, offer.value), now)

InitCallAnyRate == InitCallWith([id : {"R1"}, symbol : Symbols, exchange_rate : QuoteRates])

NextOffers == ExecuteOffered \/ RollbackTx \/ NewBlock \/ InitCallAnyRate \/ InitReply

SpecOffers == Init /\ [][NextOffers]_vars

-----------------------------------------------------------------------------
\* The reserve: the behaviours of Spec with the history of the live
\* transactions of each pool

\* the satoshis a committed call adds to the reserve: the BTC input of a buy,
\* minus the BTC output of a sell
SatsOf(args) ==
    IF args.action = "buy_token" THEN args.input_coins[1].value
    ELSE 0 - args.output_coins[1].value

\* a committed call becomes live on its pool, with the state it committed
ExecuteTxReserve(args, now) ==
    LET out == execute_tx(args, now)
        a == args.pool_address IN
        /\ ExecuteTxEffect(args, now)
        /\ live' = IF out.response.ok
                   THEN [live EXCEPT ![a] = Append(@, [state |-> LastOrDefault(out.tokens[a].states),
                                                       sats |-> SatsOf(args)])]
                   ELSE live
        /\ UNCHANGED <<executed, listed_at>>

\* explored while the pool has fewer than MaxNonce live transactions
ExecuteTxWithReserve ==
    \E args \in ExecuteTxArgs, now \in Times :
        /\ LatestNonce(args.pool_address) < MaxNonce
        /\ Len(live[args.pool_address]) < MaxNonce
        /\ ExecuteTxReserve(args, now)

\* the states of a pool's chain that a rollback_tx call removes
Dropped(tokens, a) ==
    IF a \in DOMAIN CANVAS_TOKENS
    THEN {CANVAS_TOKENS[a].states[i] : i \in 1..Len(CANVAS_TOKENS[a].states)}
             \ {tokens[a].states[i] : i \in 1..Len(tokens[a].states)}
    ELSE {}

\* after a successful rollback_tx(txid) the transactions of txid are no longer
\* live, nor are those whose state the call dropped from a chain
RollbackTxReserve(txid) ==
    LET out == rollback_tx(txid)
        StillLive(a, entry) ==
            entry.state.id # Some(txid) /\ entry.state \notin Dropped(out.tokens, a) IN
        /\ RollbackTxEffect(txid)
        /\ live' = IF out.response.ok
                   THEN [a \in Addrs |-> SelectSeq(live[a], LAMBDA entry : StillLive(a, entry))]
                   ELSE live

RollbackTxWithReserve == \E txid \in Txids : RollbackTxReserve(txid)

NextReserve ==
    ExecuteTxWithReserve \/ RollbackTxWithReserve \/ NewBlock \/ InitCall \/ InitReply

SpecReserve == Init /\ [][NextReserve]_vars

-----------------------------------------------------------------------------
\* Properties

Chain(a) == CANVAS_TOKENS[a].states

ConsecutiveNonces(states) ==
    \A i \in 2..Len(states) : states[i].nonce = states[i - 1].nonce + 1

\* C1: in every reachable state every pool's chain has consecutive nonces:
\* states[i].nonce = states[i-1].nonce + 1 for all i >= 1
C1_ConsecutiveNonces ==
    \A a \in DOMAIN CANVAS_TOKENS : ConsecutiveNonces(Chain(a))

\* a state has been committed on top of a base that new_block finalized
C1_Witness ==
    \E a \in DOMAIN CANVAS_TOKENS :
        /\ Len(Chain(a)) >= 2
        /\ finalized_base[a] # None

\* C2: within a pool no two distinct states carry the same txid
C2_TxidAtMostOnce ==
    \A a \in DOMAIN CANVAS_TOKENS :
        \A i, j \in 1..Len(Chain(a)) :
            (i # j /\ Chain(a)[i].id = Chain(a)[j].id) => Chain(a)[i].id = None

PoolsOf(record) == {record.pools[i] : i \in 1..Len(record.pools)}

PoolsContaining(txid) ==
    {a \in DOMAIN CANVAS_TOKENS : Position(Chain(a), txid) > 0}

\* C3: for every ledger entry (txid, confirmed) the recorded pools are exactly
\* the pool addresses whose chain contains a state with id = Some(txid)
C3_LedgerMatchesPools ==
    \A key \in DOMAIN TX_RECORDS : PoolsOf(TX_RECORDS[key]) = PoolsContaining(key[1])

\* C4: for every txid at most one of the ledger keys (txid, false) and
\* (txid, true) exists
C4_ExclusivePhase ==
    \A txid \in Txids :
        ~(<<txid, FALSE>> \in DOMAIN TX_RECORDS /\ <<txid, TRUE>> \in DOMAIN TX_RECORDS)

\* C5: once new_block has finalized a transaction in a pool, no rollback_tx
\* removes that finalized state: a rollback of the finalized txid leaves the
\* pool as it is, and a rollback of any other txid keeps the finalized base
C5_FinalizedBaseSurvivesRollback ==
    [][\A txid \in Txids, a \in Addrs :
          (RollbackTxStep(txid) /\ finalized_base[a] # None) =>
              /\ Base(CANVAS_TOKENS', a) = finalized_base[a]
              /\ finalized_base[a][1].id = Some(txid) => CANVAS_TOKENS'[a] = CANVAS_TOKENS[a]]_vars

\* C6: new_block finalizes a transaction only from a stored block at least
\* REORG_DEPTH blocks below the block just posted
C6_FinalizedOnlyBelowReorgDepth ==
    [][\A args \in NewBlockArgs :
          NewBlockStep(args) =>
              \A i \in 1..Len(new_block(args).log) :
                  new_block(args).log[i].height + REORG_DEPTH <= args.block_height]_vars

\* the calls that reach a validator: the psbt decodes, the intention exists
\* and the pool is registered
Validated(args) ==
    /\ args.psbt_ok /\ args.index_ok
    /\ args.pool_address \in DOMAIN CANVAS_TOKENS
    /\ args.action \in {"buy_token", "sell_token"}

Latest(a) == LastOrDefault(Chain(a))

NothingChanged(out) ==
    /\ out.tokens = CANVAS_TOKENS
    /\ out.records = TX_RECORDS
    /\ out.blocks = BLOCKS
    /\ out.executing = EXECUTING_TOKENS

\* C7: an execute_tx that returns an error changes no pool, ledger entry or
\* block and leaves no pool executing; a pool state and its (txid, false)
\* ledger entry are written together or not at all
C7_ErrorChangesNothing ==
    \A args \in ExecuteTxArgs, now \in Times :
        LET out == execute_tx(args, now) IN
            /\ ~out.response.ok => (NothingChanged(out) /\ args.pool_address \notin out.executing)
            /\ out.records # TX_RECORDS => out.tokens # CANVAS_TOKENS
            /\ out.tokens # CANVAS_TOKENS =>
                   /\ <<args.txid, FALSE>> \in DOMAIN out.records
                   /\ args.pool_address \in PoolsOf(out.records[<<args.txid, FALSE>>])

\* a validator rejects a call on a pool that already holds a committed state
\* and an unconfirmed ledger record
C7_Witness ==
    \E args \in ExecuteTxArgs, now \in Times :
        /\ Validated(args)
        /\ Chain(args.pool_address) # <<>>
        /\ <<args.txid, FALSE>> \in DOMAIN TX_RECORDS
        /\ execute_tx(args, now).response.err = "InsufficientBtc"

\* the intent has the shape and the coin ids its action asks for
RightShapeAndCoins(args) ==
    /\ Len(args.input_coins) = 1 /\ Len(args.output_coins) = 1
    /\ IF args.action = "buy_token"
       THEN /\ args.input_coins[1].id = BTC
            /\ args.output_coins[1].id = CANVAS_TOKENS[args.pool_address].meta.id
       ELSE /\ args.input_coins[1].id = CANVAS_TOKENS[args.pool_address].meta.id
            /\ args.output_coins[1].id = BTC
            /\ Chain(args.pool_address) # <<>>

\* C8: a buy, or a sell on a non-empty chain, with the right shape and coin ids
\* and a nonce other than the pool's latest fails with TokenStateExpired(latest
\* nonce) and changes nothing; the nonce a state of the chain consumed is never
\* accepted again
C8_StaleNonceExpired ==
    \A args \in ExecuteTxArgs, now \in Times :
        Validated(args) =>
            LET out == execute_tx(args, now)
                a == args.pool_address IN
                /\ (RightShapeAndCoins(args) /\ args.nonce # Latest(a).nonce) =>
                       /\ out.response = Response("execute_tx", FALSE, "TokenStateExpired", Latest(a).nonce)
                       /\ NothingChanged(out)
                /\ (\E i \in 1..Len(Chain(a)) : args.nonce = Chain(a)[i].nonce - 1) =>
                       ~out.response.ok

\* a well-formed buy replays the nonce that the first state of a chain of two consumed
C8_Witness ==
    \E args \in ExecuteTxArgs :
        /\ Validated(args) /\ args.action = "buy_token" /\ RightShapeAndCoins(args)
        /\ Len(Chain(args.pool_address)) = 2
        /\ args.nonce = Chain(args.pool_address)[1].nonce - 1

\* the satoshis a sell pays out: the value of its BTC output
SellAmount(args) == args.output_coins[1].value

\* a sell that passes every check before the reserve check
SellReachesReserveCheck(args) ==
    /\ Validated(args) /\ args.action = "sell_token" /\ RightShapeAndCoins(args)
    /\ args.nonce = Latest(args.pool_address).nonce
    /\ SellAmount(args) = args.input_coins[1].value \div DEFAULT_EXCHANGE_RATE
    /\ SellAmount(args) >= MIN_BTC_VALUE

\* C9: a successful sell of B satoshis had a prior latest btc_balance >= B and
\* leaves btc_balance = prior - B; a sell of more than the prior balance fails
\* with InsufficientBtc; no btc_balance is ever below 0
C9_SellWithinReserve ==
    /\ \A a \in DOMAIN CANVAS_TOKENS : \A i \in 1..Len(Chain(a)) :
           Chain(a)[i].btc_balance \in 0..U64_MAX
    /\ \A args \in ExecuteTxArgs, now \in Times :
           (Validated(args) /\ args.action = "sell_token") =>
               LET out == execute_tx(args, now)
                   a == args.pool_address
                   prior == Latest(a).btc_balance IN
                   /\ out.response.ok =>
                          /\ prior >= SellAmount(args)
                          /\ LastOrDefault(out.tokens[a].states).btc_balance = prior - SellAmount(args)
                   /\ (SellReachesReserveCheck(args) /\ SellAmount(args) > prior) =>
                          /\ out.response.err = "InsufficientBtc"
                          /\ NothingChanged(out)

\* a sell has drained the reserve a buy built up, so that the same sell again
\* asks for more than the pool holds
C9_Witness ==
    \E args \in ExecuteTxArgs :
        /\ SellReachesReserveCheck(args)
        /\ Len(Chain(args.pool_address)) = 2
        /\ Chain(args.pool_address)[2].btc_balance = Chain(args.pool_address)[1].btc_balance - SellAmount(args)
        /\ SellAmount(args) > Latest(args.pool_address).btc_balance

\* C10: a successful buy of b satoshis with txid t on pool P appends exactly one
\* state to P's chain, with id = Some(t), nonce = latest nonce + 1, btc_balance
\* = latest balance + b and exchange_rate = Some(rate validated against), and
\* the ledger holds (t, false) with P among its pools
C10_BuyAppendsOneState ==
    \A args \in ExecuteTxArgs, now \in Times :
        (Validated(args) /\ args.action = "buy_token") =>
            LET out == execute_tx(args, now)
                a == args.pool_address
                new == out.tokens[a].states IN
                out.response.ok =>
                    /\ Len(new) = Len(Chain(a)) + 1
                    /\ SubSeq(new, 1, Len(Chain(a))) = Chain(a)
                    /\ new[Len(new)].id = Some(args.txid)
                    /\ new[Len(new)].nonce = Latest(a).nonce + 1
                    /\ new[Len(new)].btc_balance = Latest(a).btc_balance + args.input_coins[1].value
                    /\ new[Len(new)].exchange_rate = Some(DEFAULT_EXCHANGE_RATE)
                    /\ \A b \in DOMAIN out.tokens \ {a} : out.tokens[b] = CANVAS_TOKENS[b]
                    /\ <<args.txid, FALSE>> \in DOMAIN out.records
                    /\ a \in PoolsOf(out.records[<<args.txid, FALSE>>])

\* a buy is accepted on top of a chain that already holds a buy
C10_Witness ==
    \E args \in ExecuteTxArgs, now \in Times :
        /\ Validated(args) /\ args.action = "buy_token"
        /\ Chain(args.pool_address) # <<>>
        /\ Latest(args.pool_address).btc_balance > 0
        /\ execute_tx(args, now).response.ok

\* the ledger holds a record of txid under either key
HasRecord(txid) == <<txid, FALSE>> \in DOMAIN TX_RECORDS \/ <<txid, TRUE>> \in DOMAIN TX_RECORDS

\* the states of a chain before the first state of txid
Before(states, txid) == SubSeq(states, 1, Position(states, txid) - 1)

\* C11 as stated: rollback_tx(txid) truncates every chain that contains a state
\* of txid to the states before it, whether or not the ledger still has a
\* record of txid
C11_RollbackTruncatesAnyChain ==
    \A txid \in Txids, a \in DOMAIN CANVAS_TOKENS :
        Position(Chain(a), txid) > 0 =>
            rollback_tx(txid).tokens[a].states = Before(Chain(a), txid)

\* the pools of the record rollback_tx reads for txid: the confirmed one if
\* there is one, else the unconfirmed one
RecordedPools(txid) ==
    IF <<txid, TRUE>> \in DOMAIN TX_RECORDS THEN PoolsOf(TX_RECORDS[<<txid, TRUE>>])
    ELSE IF <<txid, FALSE>> \in DOMAIN TX_RECORDS THEN PoolsOf(TX_RECORDS[<<txid, FALSE>>])
    ELSE {}

\* C11: rollback_tx(txid) leaves of every chain that contains a state of txid
\* and belongs to a pool listed in the ledger record of txid exactly the states
\* before that state, in order and unchanged; a second rollback_tx(txid) finds
\* no record, returns the not-found error and changes no pool, and rollback on
\* each rolled-back pool returns InvalidState
C11_RollbackTruncatesRecorded ==
    [][\A txid \in Txids :
          (HasRecord(txid) /\ RollbackTxStep(txid)) =>
              /\ \A a \in RecordedPools(txid) \cap DOMAIN CANVAS_TOKENS :
                     Position(Chain(a), txid) > 0 =>
                         /\ CANVAS_TOKENS'[a].states = Before(Chain(a), txid)
                         /\ ~rollback(CANVAS_TOKENS'[a].states, txid).ok
              /\ (rollback_tx(txid).response)' =
                     Response("rollback_tx", FALSE, NoRecordFound(txid), 0)
              /\ (rollback_tx(txid).tokens)' = CANVAS_TOKENS']_vars

\* a recorded txid made the second state of a chain of two: a rollback keeps
\* the state before it and drops its own
C11_Witness ==
    \E txid \in Txids, a \in DOMAIN CANVAS_TOKENS :
        /\ a \in RecordedPools(txid)
        /\ Len(Chain(a)) = 2
        /\ Position(Chain(a), txid) = 2
        /\ rollback_tx(txid).response.ok
        /\ rollback_tx(txid).tokens[a].states = <<Chain(a)[1]>>

\* C12: a successful execute_tx(txid) on pool P followed at once by
\* rollback_tx(txid) restores P's chain and the ledger to what they were before
\* the execute_tx, so that the same intent with the same nonce is accepted again
C12_ExecuteRollbackRoundTrip ==
    [][\A args \in ExecuteTxArgs, now \in Times :
          (ExecuteTxStep(args, now) /\ execute_tx(args, now).response.ok) =>
              /\ (rollback_tx(args.txid).response.ok)'
              /\ (rollback_tx(args.txid).tokens)' = CANVAS_TOKENS
              /\ (rollback_tx(args.txid).records)' = TX_RECORDS]_vars

\* C13: rollback_tx(txid) leaves unchanged the chain of every pool whose chain
\* contains no state of txid, listed in the ledger record of txid or not, and
\* execute_tx on one pool leaves the chain of every other pool unchanged
C13_OtherPoolsUntouched ==
    /\ \A txid \in Txids :
           LET out == rollback_tx(txid) IN
           \A a \in DOMAIN CANVAS_TOKENS :
               Position(Chain(a), txid) = 0 =>
                   /\ a \in DOMAIN out.tokens
                   /\ out.tokens[a].states = Chain(a)
    /\ \A args \in ExecuteTxArgsTwoPools, now \in Times :
           LET out == execute_tx(args, now) IN
           \A b \in DOMAIN CANVAS_TOKENS \ {args.pool_address} :
               /\ b \in DOMAIN out.tokens
               /\ out.tokens[b].states = Chain(b)

\* the record of txid lists two pools with non-empty chains, of which only one
\* holds a state of txid: rollback_tx(txid) rolls that one back; and a buy on
\* one of the pools is accepted
C13_Witness ==
    /\ \E txid \in Txids, x, y \in DOMAIN CANVAS_TOKENS :
           /\ x # y
           /\ {x, y} \subseteq RecordedPools(txid)
           /\ Position(Chain(x), txid) > 0
           /\ Position(Chain(y), txid) = 0 /\ Chain(y) # <<>>
           /\ rollback_tx(txid).tokens[x].states # Chain(x)
    /\ \E args \in ExecuteTxArgsTwoPools, now \in Times :
           /\ execute_tx(args, now).response.ok
           /\ \E b \in DOMAIN CANVAS_TOKENS \ {args.pool_address} : Chain(b) # <<>>

\* C15: the guard is released on every exit path of execute_tx (success,
\* validator error, invalid method): between calls the executing set is empty,
\* every call leaves it empty, and no call is rejected with "Executing"
C15_GuardReleased ==
    /\ EXECUTING_TOKENS = {}
    /\ \A args \in ExecuteTxArgs, now \in Times :
           LET out == execute_tx(args, now) IN
               /\ out.executing = {}
               /\ out.response.err # "Executing"

\* a call has committed a state on a pool, and a later call on the same pool
\* succeeds, one fails in the validator and one names an invalid method
C15_Witness ==
    \E a \in DOMAIN CANVAS_TOKENS :
        /\ Chain(a) # <<>>
        /\ \E args \in ExecuteTxArgs, now \in Times :
               args.pool_address = a /\ execute_tx(args, now).response.ok
        /\ \E args \in ExecuteTxArgs, now \in Times :
               args.pool_address = a /\ execute_tx(args, now).response.err = "TokenStateExpired"
        /\ \E args \in ExecuteTxArgs, now \in Times :
               args.pool_address = a /\ execute_tx(args, now).response.err = "invalid method"

\* C16: if execute_tx(txid) succeeded on a pool, a later new_block listed txid
\* in block h and no rollback_tx was called, then after any new_block call with
\* height >= h + 6 the ledger holds no entry for txid, the state of txid, where
\* a chain still holds it, is the first of that chain, and no block with
\* height <= posted height - 6 remains stored
C16_FinalizedSixBlocksLater ==
    [][\A args \in NewBlockArgs, txid \in Txids :
          (/\ NewBlockTracked(args)
           /\ listed_at[txid] # None
           /\ args.block_height >= listed_at[txid][1] + REORG_DEPTH) =>
              /\ <<txid, FALSE>> \notin DOMAIN TX_RECORDS'
              /\ <<txid, TRUE>> \notin DOMAIN TX_RECORDS'
              /\ \A a \in DOMAIN CANVAS_TOKENS' :
                     Position(CANVAS_TOKENS'[a].states, txid) <= 1
              /\ \A h \in DOMAIN BLOCKS' : h + REORG_DEPTH > args.block_height]_vars

\* the BTC value of a sell in exact arithmetic
ExactSellValue(args) == args.input_coins[1].value \div DEFAULT_EXCHANGE_RATE

\* C17: every sell accepted by execute_tx has btc_output.value =
\* floor(token_input.value / rate) in exact arithmetic; when that quotient does
\* not fit in u64 the sell is rejected with an overflow error and nothing is
\* committed
C17_SellExactQuotient ==
    \A args \in ExecuteTxArgs, now \in Times :
        (Validated(args) /\ args.action = "sell_token" /\ RightShapeAndCoins(args)) =>
            LET out == execute_tx(args, now) IN
                /\ out.response.ok => args.output_coins[1].value = ExactSellValue(args)
                /\ (ExactSellValue(args) > U64_MAX /\ args.nonce = Latest(args.pool_address).nonce) =>
                       /\ out.response.err = "Overflow"
                       /\ NothingChanged(out)

IsPrefix(s, t) == Len(s) <= Len(t) /\ s = SubSeq(t, 1, Len(s))

IsSuffix(s, t) == Len(s) <= Len(t) /\ s = SubSeq(t, Len(t) - Len(s) + 1, Len(t))

\* C18: a pool that exists is never replaced or reset: it stays registered with
\* the same meta, each step leaves its chain as it is, appends one state, keeps
\* a prefix or keeps a suffix, and the completion of an init_canvas_token call
\* alters no existing pool
C18_PoolNeverReplaced ==
    [][/\ \A a \in DOMAIN CANVAS_TOKENS :
              /\ a \in DOMAIN CANVAS_TOKENS'
              /\ CANVAS_TOKENS'[a].meta = CANVAS_TOKENS[a].meta
              /\ \/ IsPrefix(Chain(a), CANVAS_TOKENS'[a].states)
                    /\ Len(CANVAS_TOKENS'[a].states) <= Len(Chain(a)) + 1
                 \/ IsPrefix(CANVAS_TOKENS'[a].states, Chain(a))
                 \/ IsSuffix(CANVAS_TOKENS'[a].states, Chain(a))
       /\ InitReply =>
              \A a \in DOMAIN CANVAS_TOKENS : CANVAS_TOKENS'[a] = CANVAS_TOKENS[a]]_vars

\* C19 as stated: every non-empty chain has states[0].nonce in {0, 1}
C19_FirstNonceZeroOrOne ==
    \A a \in DOMAIN CANVAS_TOKENS :
        Chain(a) # <<>> => Chain(a)[1].nonce \in {0, 1}

\* C19: every non-empty chain has states[0].nonce in {0, 1}, unless states[0]
\* is the state new_block finalized as the base of the chain, which keeps the
\* nonce it was committed with
C19_FirstNonceUnlessFinalized ==
    \A a \in DOMAIN CANVAS_TOKENS :
        Chain(a) # <<>> =>
            \/ Chain(a)[1].nonce \in {0, 1}
            \/ finalized_base[a] = Some(Chain(a)[1])

\* new_block has finalized the second state of a chain as its base: the first
\* state of the chain has nonce 2
C19_Witness ==
    \E a \in DOMAIN CANVAS_TOKENS :
        /\ Chain(a) # <<>>
        /\ Chain(a)[1].nonce = 2
        /\ finalized_base[a] = Some(Chain(a)[1])

\* max(0, height - 6)
SafeHeight(height) == IF height - REORG_DEPTH > 0 THEN height - REORG_DEPTH ELSE 0

\* after new_block(args) no stored block is at or below the safe height, and
\* args is stored at its height when that is above the safe height
PrunedAndStored(args) ==
    LET stored == new_block(args).blocks
        safe == SafeHeight(args.block_height) IN
        /\ \A h \in DOMAIN stored : h > safe
        /\ args.block_height > safe =>
               /\ args.block_height \in DOMAIN stored
               /\ stored[args.block_height] = args

\* C20 as stated: after new_block(b) no stored block has height <= safe_height
\* = max(0, b.height - 6), every previously stored block with height >
\* safe_height is still stored unchanged, and b is stored at b.height whenever
\* b.height > safe_height
C20_PrunedKeptStored ==
    \A args \in NewBlockArgs :
        /\ PrunedAndStored(args)
        /\ \A h \in DOMAIN BLOCKS :
               h > SafeHeight(args.block_height) =>
                   /\ h \in DOMAIN new_block(args).blocks
                   /\ new_block(args).blocks[h] = BLOCKS[h]

\* C20: as stated, except that a block previously stored at b.height is
\* replaced by b
C20_PrunedKeptStoredExceptReplaced ==
    \A args \in NewBlockArgs :
        LET stored == new_block(args).blocks IN
        /\ PrunedAndStored(args)
        /\ \A h \in DOMAIN BLOCKS \ {args.block_height} :
               h > SafeHeight(args.block_height) =>
                   /\ h \in DOMAIN stored
                   /\ stored[h] = BLOCKS[h]

\* blocks are stored at heights 1 and REORG_DEPTH + 1: a block posted at the
\* upper height prunes the lower one, a block posted at the lower height keeps
\* the upper one
C20_Witness ==
    /\ DOMAIN BLOCKS = {1, REORG_DEPTH + 1}
    /\ \E args \in NewBlockArgs :
           /\ args.block_height = REORG_DEPTH + 1
           /\ DOMAIN new_block(args).blocks = {REORG_DEPTH + 1}
    /\ \E args \in NewBlockArgs :
           /\ args.block_height = 1
           /\ DOMAIN new_block(args).blocks = {1, REORG_DEPTH + 1}

\* the pools listed by the ledger entry of txid that rollback_tx reads: the
\* confirmed one when there is one, else the unconfirmed one
PreferredPools(txid) ==
    IF <<txid, TRUE>> \in DOMAIN TX_RECORDS THEN PoolsOf(TX_RECORDS[<<txid, TRUE>>])
    ELSE IF <<txid, FALSE>> \in DOMAIN TX_RECORDS THEN PoolsOf(TX_RECORDS[<<txid, FALSE>>])
    ELSE {}

\* C21: rollback_tx(txid) for a txid with neither ledger entry returns an error
\* naming the txid and changes no pool, ledger entry or block; when an entry
\* exists rollback_tx returns ok, only pools listed by the preferred entry (the
\* confirmed one over the unconfirmed one) can change, and afterwards neither
\* ledger key for txid exists, the other entries and the blocks being as before
C21_RollbackTxErrorOrDropsBoth ==
    \A txid \in Txids :
        LET out == rollback_tx(txid) IN
            IF ~HasRecord(txid)
            THEN /\ out.response = Response("rollback_tx", FALSE, NoRecordFound(txid), 0)
                 /\ NothingChanged(out)
            ELSE /\ out.response.ok
                 /\ <<txid, FALSE>> \notin DOMAIN out.records
                 /\ <<txid, TRUE>> \notin DOMAIN out.records
                 /\ \A k \in DOMAIN TX_RECORDS :
                        k[1] # txid => k \in DOMAIN out.records /\ out.records[k] = TX_RECORDS[k]
                 /\ \A a \in DOMAIN CANVAS_TOKENS \ PreferredPools(txid) :
                        out.tokens[a] = CANVAS_TOKENS[a]
                 /\ out.blocks = BLOCKS

\* one txid has no ledger entry; another has both entries, the confirmed one
\* listing a pool the unconfirmed one does not, and both pools hold a state of it
C21_Witness ==
    /\ \E txid \in Txids : ~HasRecord(txid)
    /\ \E txid \in Txids :
           /\ <<txid, FALSE>> \in DOMAIN TX_RECORDS
           /\ <<txid, TRUE>> \in DOMAIN TX_RECORDS
           /\ PoolsOf(TX_RECORDS[<<txid, FALSE>>]) # PoolsOf(TX_RECORDS[<<txid, TRUE>>])
           /\ \A a \in DOMAIN CANVAS_TOKENS : Position(Chain(a), txid) > 0
           /\ Cardinality(DOMAIN CANVAS_TOKENS) = 2

\* C22: finalize(txid) on a chain whose first state of txid is at index idx
\* yields exactly the old suffix states[idx..] in the same order: states[0]
\* becomes txid's state, all later states are kept, idx = 0 is a no-op, and an
\* absent txid returns InvalidState with the chain unchanged (Position counts
\* from 1, with 0 for an absent txid)
C22_FinalizeKeepsSuffix ==
    \A a \in DOMAIN CANVAS_TOKENS, txid \in Txids :
        LET states == Chain(a)
            idx == Position(states, txid)
            done == finalize(states, txid) IN
            IF idx = 0
            THEN ~done.ok /\ done.states = states
            ELSE /\ done.ok
                 /\ Len(done.states) = Len(states) - (idx - 1)
                 /\ \A i \in 1..Len(done.states) : done.states[i] = states[idx - 1 + i]
                 /\ done.states[1].id = Some(txid)
                 /\ idx = 1 => done.states = states

\* a chain of three states in which one txid is first found at the second
\* state and the other carries the first and the third: finalize of the former
\* rotates by one and keeps two states, finalize of the latter is a no-op
C22_Witness ==
    \E a \in DOMAIN CANVAS_TOKENS :
        /\ Len(Chain(a)) = 3
        /\ \E txid \in Txids : Position(Chain(a), txid) = 2
        /\ \E txid \in Txids : Position(Chain(a), txid) = 1
        /\ Chain(a)[3].id = Chain(a)[1].id

\* C23: a new_block call only removes a prefix of a pool's chain: it never
\* reorders states, never appends, and never removes or alters the pool's
\* latest state, so the pool's current nonce, btc_balance and rate are the
\* same before and after any new_block
C23_NewBlockRemovesPrefixOnly ==
    \A args \in NewBlockArgs :
        LET out == new_block(args) IN
        \A a \in DOMAIN CANVAS_TOKENS :
            /\ a \in DOMAIN out.tokens
            /\ IsSuffix(out.tokens[a].states, Chain(a))
            /\ (Chain(a) = <<>>) = (out.tokens[a].states = <<>>)
            /\ LastOrDefault(out.tokens[a].states) = LastOrDefault(Chain(a))
            /\ get_current_exchange_rate(out.tokens[a]) = get_current_exchange_rate(CANVAS_TOKENS[a])

\* a new_block call removes the first state of a chain of two
C23_Witness ==
    \E args \in NewBlockArgs, a \in DOMAIN CANVAS_TOKENS :
        /\ Len(Chain(a)) = 2
        /\ new_block(args).tokens[a].states = <<Chain(a)[2]>>

\* the error kind of a validator's result, "" when it accepted
ErrorOf(result) == IF result.ok THEN "" ELSE result.err

\* C24: validate_buy checks its preconditions in a fixed order and reports the
\* first that fails: shape (exactly one input and one output) -> input coin is
\* BTC -> output coin is the pool's token (all InvalidSignPsbtArgs) -> nonce
\* (TokenStateExpired) -> input value fits u64 (Overflow) -> input >=
\* MIN_BTC_VALUE (TooSmallFunds) -> output value = input x rate
\* (InvalidSignPsbtArgs) -> balance + input does not overflow u64 (Overflow);
\* a buy passing all of them is accepted
C24_BuyFirstFailureReported ==
    \A a \in DOMAIN CANVAS_TOKENS, args \in BuyArgs, now \in Times :
        LET token == CANVAS_TOKENS[a]
            state == LastOrDefault(token.states)
            ins == args.input_coins
            outs == args.output_coins
            result == validate_buy_token(token, args.txid, args.nonce, ins, outs,
                                         DEFAULT_EXCHANGE_RATE, now)
            shape == Len(ins) = 1 /\ Len(outs) = 1
            input_btc == shape /\ ins[1].id = BTC
            output_token == input_btc /\ outs[1].id = token.meta.id
            nonce == output_token /\ args.nonce = state.nonce
            fits_u64 == nonce /\ ins[1].value <= U64_MAX
            minimum == fits_u64 /\ ins[1].value >= MIN_BTC_VALUE
            amount == minimum /\ outs[1].value = ins[1].value * DEFAULT_EXCHANGE_RATE
            no_overflow == amount /\ state.btc_balance + ins[1].value <= U64_MAX
        IN  /\ ~shape => ErrorOf(result) = "InvalidSignPsbtArgs"
            /\ (shape /\ ~input_btc) => ErrorOf(result) = "InvalidSignPsbtArgs"
            /\ (input_btc /\ ~output_token) => ErrorOf(result) = "InvalidSignPsbtArgs"
            /\ (output_token /\ ~nonce) =>
                   ErrorOf(result) = "TokenStateExpired" /\ result.nonce = state.nonce
            /\ (nonce /\ ~fits_u64) => ErrorOf(result) = "Overflow"
            /\ (fits_u64 /\ ~minimum) => ErrorOf(result) = "TooSmallFunds"
            /\ (minimum /\ ~amount) => ErrorOf(result) = "InvalidSignPsbtArgs"
            /\ (amount /\ ~no_overflow) => ErrorOf(result) = "Overflow"
            /\ no_overflow => result.ok
            /\ result.ok = execute_tx(args, now).response.ok

\* a pool holds a balance, and among the buys are one that breaks the nonce,
\* the minimum and the amount together, one that breaks only the last
\* precondition, and one that is accepted
C24_Witness ==
    \E a \in DOMAIN CANVAS_TOKENS :
        LET state == LastOrDefault(Chain(a)) IN
        /\ state.btc_balance > 0
        /\ \E args \in BuyArgs :
               /\ Len(args.input_coins) = 1 /\ Len(args.output_coins) = 1
               /\ args.input_coins[1].id = BTC /\ args.output_coins[1].id = "R1"
               /\ args.nonce # state.nonce
               /\ args.input_coins[1].value < MIN_BTC_VALUE
               /\ args.output_coins[1].value # args.input_coins[1].value * DEFAULT_EXCHANGE_RATE
        /\ \E args \in BuyArgs, now \in Times :
               /\ args.nonce = state.nonce
               /\ args.input_coins = <<Coin(BTC, U64_MAX - MIN_BTC_VALUE + 1)>>
               /\ args.output_coins = <<Coin("R1", (U64_MAX - MIN_BTC_VALUE + 1) * DEFAULT_EXCHANGE_RATE)>>
               /\ execute_tx(args, now).response.err = "Overflow"
        /\ \E args \in BuyArgs, now \in Times : execute_tx(args, now).response.ok

\* the log of a new_block call has a "finalize txid" line for txid
FinalizedIn(log, txid) == \E i \in 1..Len(log) : log[i].txid = txid

\* C25: after new_block(b) returns, no txid listed in b.confirmed_txids has an
\* unconfirmed (txid,false) ledger entry: an existing one was moved to
\* (txid,true) with its pools, or nothing happened if it had none (the
\* confirmed entry is then as the promotion left it, or gone when the sweep of
\* the same call finalized txid), and every unconfirmed entry of a txid not
\* listed in b.confirmed_txids is unchanged
C25_ListedTxidsPromoted ==
    \A args \in NewBlockArgs :
        LET out == new_block(args) IN
        \A txid \in Txids :
            IF Contains(args.confirmed_txids, txid)
            THEN /\ <<txid, FALSE>> \notin DOMAIN out.records
                 /\ IF FinalizedIn(out.log, txid)
                    THEN <<txid, TRUE>> \notin DOMAIN out.records
                    ELSE IF <<txid, FALSE>> \in DOMAIN TX_RECORDS
                    THEN Get(out.records, <<txid, TRUE>>) = Some(TX_RECORDS[<<txid, FALSE>>])
                    ELSE Get(out.records, <<txid, TRUE>>) = Get(TX_RECORDS, <<txid, TRUE>>)
            ELSE Get(out.records, <<txid, FALSE>>) = Get(TX_RECORDS, <<txid, FALSE>>)

\* a txid has an unconfirmed entry and a confirmed one that lists another
\* pool: a block that lists it replaces the confirmed entry by the unconfirmed
\* one, and a block that does not list it leaves the unconfirmed one
C25_Witness ==
    \E txid \in Txids :
        /\ <<txid, FALSE>> \in DOMAIN TX_RECORDS
        /\ <<txid, TRUE>> \in DOMAIN TX_RECORDS
        /\ TX_RECORDS[<<txid, FALSE>>] # TX_RECORDS[<<txid, TRUE>>]
        /\ \E args \in NewBlockArgs :
               /\ Contains(args.confirmed_txids, txid)
               /\ <<txid, TRUE>> \in DOMAIN new_block(args).records
               /\ new_block(args).records[<<txid, TRUE>>] = TX_RECORDS[<<txid, FALSE>>]
        /\ \E args \in NewBlockArgs :
               /\ ~Contains(args.confirmed_txids, txid)
               /\ <<txid, FALSE>> \in DOMAIN new_block(args).records

\* the pools of the confirmed entry of txid as the promotion loop of
\* new_block(args) leaves it
PromotedPools(args, txid) ==
    LET promoted == Promote(TX_RECORDS, args.confirmed_txids) IN
        IF <<txid, TRUE>> \in DOMAIN promoted THEN PoolsOf(promoted[<<txid, TRUE>>]) ELSE {}

\* several pools are listed and the chain of one of them has no state of txid
OneListedPoolFails(pools, txid) ==
    /\ Cardinality(pools) > 1
    /\ \E a \in pools \cap DOMAIN CANVAS_TOKENS : Position(Chain(a), txid) = 0

\* C26: when the ledger record of txid lists several pools and pool.rollback
\* (in rollback_tx) or pool.finalize (in new_block) fails for one of them
\* because that pool's chain no longer contains txid, every other listed pool
\* that does contain txid is still rolled back / finalized, the failing pool
\* is left unchanged, the ledger entry is dropped and the call returns ok (for
\* new_block: in a call that finalizes txid and no other)
C26_SiblingPoolsStillSwept ==
    /\ \A txid \in Txids :
           OneListedPoolFails(PreferredPools(txid), txid) =>
               LET out == rollback_tx(txid) IN
                   /\ out.response.ok
                   /\ <<txid, FALSE>> \notin DOMAIN out.records
                   /\ <<txid, TRUE>> \notin DOMAIN out.records
                   /\ \A a \in PreferredPools(txid) \cap DOMAIN CANVAS_TOKENS :
                          IF Position(Chain(a), txid) = 0
                          THEN out.tokens[a] = CANVAS_TOKENS[a]
                          ELSE out.tokens[a].states = Before(Chain(a), txid)
    /\ \A args \in NewBlockArgs :
           LET out == new_block(args) IN
           \A txid \in Txids :
               (/\ Len(out.log) = 1 /\ out.log[1].txid = txid
                /\ OneListedPoolFails(PromotedPools(args, txid), txid)) =>
                   /\ out.response.ok
                   /\ <<txid, TRUE>> \notin DOMAIN out.records
                   /\ \A a \in PromotedPools(args, txid) \cap DOMAIN CANVAS_TOKENS :
                          IF Position(Chain(a), txid) = 0
                          THEN out.tokens[a] = CANVAS_TOKENS[a]
                          ELSE /\ out.tokens[a].states =
                                      SubSeq(Chain(a), Position(Chain(a), txid), Len(Chain(a)))
                               /\ out.base[a] = Some(Chain(a)[Position(Chain(a), txid)])

\* the record that rollback_tx reads lists two pools, the first without a
\* state of txid and the second with one, and a new_block call finalizes txid
\* alone from a confirmed record in the same situation
C26_Witness ==
    \E txid \in Txids :
        /\ \E k \in DOMAIN TX_RECORDS :
               /\ k[1] = txid
               /\ PoolsOf(TX_RECORDS[k]) = PreferredPools(txid)
               /\ Len(TX_RECORDS[k].pools) = 2
               /\ TX_RECORDS[k].pools[1] \in DOMAIN CANVAS_TOKENS
               /\ Position(Chain(TX_RECORDS[k].pools[1]), txid) = 0
               /\ TX_RECORDS[k].pools[2] \in DOMAIN CANVAS_TOKENS
               /\ Position(Chain(TX_RECORDS[k].pools[2]), txid) > 0
        /\ \E args \in NewBlockArgs :
               /\ Len(new_block(args).log) = 1 /\ new_block(args).log[1].txid = txid
               /\ OneListedPoolFails(PromotedPools(args, txid), txid)
               /\ new_block(args).base # finalized_base

\* C27: for any pool and btc_amount >= MIN_BTC_VALUE, if pre_buy_token returns
\* an offer {nonce, token_amount}, then an execute_tx buy submitted with no
\* intervening mutation, using that nonce, an input of btc_amount BTC and an
\* output of token_amount of the pool's token, is accepted
C27_OfferedBuyAccepted ==
    \A a \in DOMAIN CANVAS_TOKENS, btc_amount \in OfferAmounts, txid \in Txids, now \in Times :
        LET offer == pre_buy_token(CANVAS_TOKENS, a, btc_amount) IN
            (btc_amount >= MIN_BTC_VALUE /\ offer.ok) =>
                execute_tx(OfferedBuy(txid, a, btc_amount, offer.value), now).response.ok

RECURSIVE SumSats(_)
SumSats(entries) == IF entries = <<>> THEN 0 ELSE Head(entries).sats + SumSats(Tail(entries))

\* C28: in every reachable state, each pool's latest btc_balance (0 for an
\* empty chain) equals the sum of the satoshis of its live buys minus the sum
\* of the satoshis of its live sells, where a transaction is live if it was
\* successfully executed on the pool and has since neither been the subject of
\* a successful rollback_tx nor been dropped from the chain by the cascading
\* rollback of an earlier transaction
C28_ReserveIsSumOfLive ==
    \A a \in DOMAIN CANVAS_TOKENS :
        LastOrDefault(Chain(a)).btc_balance = SumSats(live[a])

====
